---- MODULE Spec2Model ----
(***************************************************************************)
(* playwright-mapper: the library functions of src/src/index.js            *)
(* (getChangedFiles, loadMappings, getMappedTags, computeGrepPattern,      *)
(* runPlaywright) and the command line process of src/bin/cli.js (main,    *)
(* parseArgs, loadConfig, runCommand, listCommand, initCommand).           *)
(*                                                                         *)
(* A JavaScript string whose characters matter (a path, a tag, a grep      *)
(* pattern, the output of git) is a sequence of one-character strings.     *)
(* A command line token is an atomic TLA+ string.                          *)
(***************************************************************************)
EXTENDS Integers, Sequences, FiniteSets, TLC

VARIABLES
    pc,             \* position of the process / of the library call
    argv,           \* process.argv.slice(2)
    envDisable,     \* process.env.MAPPER_DISABLE
    rcFile,         \* state of the .mapperrc file
    git,            \* what the two git commands do when run
    fsFile,         \* state of the file config.mappingsFile resolves to
    requireCache,   \* require.cache entry of the mapping module
    command,        \* parsed.command
    config,         \* parsed.config
    playwrightArgs, \* parsed.playwrightArgs
    changedFiles,   \* const changedFiles
    mappings,       \* const mappings
    tags,           \* const tags
    options,        \* the options argument of computeGrepPattern
    grepPattern,    \* const grepPattern / the pattern handed to runPlaywright
    calls,          \* the invocations of the external runner, in order
    status,         \* the value runPlaywright returned
    exitCode,       \* the code given to process.exit
    trace,          \* the library operations performed so far, in order
    err,            \* an exception is pending (thrown and not yet caught)
    reported        \* console.error has printed a fault

vars == <<pc, argv, envDisable, rcFile, git, fsFile, requireCache, command,
          config,
          playwrightArgs, changedFiles, mappings, tags, options, grepPattern,
          calls, status, exitCode, trace, err, reported>>

----------------------------------------------------------------------------
\* Bounds of the model.

\* longest argument vector
MaxArgs == 2
\* longest output of `git diff --name-only`, in characters
MaxOutLen == 4
\* longest list of changed files handed to getMappedTags
MaxFiles == 2
\* longest list of prefixes of one mapping rule
MaxPrefixes == 2
\* longest list of tags handed to computeGrepPattern
MaxTags == 3
\* largest status code of a failed external command
MaxStatus == 2
\* most edits and loads of the mapping file in one process
MaxSteps == 3

----------------------------------------------------------------------------
\* Strings.

\* '@baseline'
BASELINE == <<"@", "b", "a", "s", "e", "l", "i", "n", "e">>

\* '.*'
MATCH_ALL == <<".", "*">>

\* the characters String.prototype.trim removes, among those of the model
Whitespace == {" ", "\n"}

\* all sequences over S of length at most n
SeqUpTo(S, n) == UNION {[1..k -> S] : k \in 0..n}

\* s.trimStart()
RECURSIVE TrimStart(_)
TrimStart(s) ==
    IF s # <<>> /\ Head(s) \in Whitespace THEN TrimStart(Tail(s)) ELSE s

\* s.trimEnd()
RECURSIVE TrimEnd(_)
TrimEnd(s) ==
    IF s # <<>> /\ s[Len(s)] \in Whitespace
    THEN TrimEnd(SubSeq(s, 1, Len(s) - 1))
    ELSE s

\* s.trim()
Trim(s) == TrimEnd(TrimStart(s))

\* s.split(sep) for a one-character separator: cur is the piece being read
RECURSIVE SplitFrom(_, _, _)
SplitFrom(s, sep, cur) ==
    IF s = <<>> THEN <<cur>>
    ELSE IF Head(s) = sep THEN <<cur>> \o SplitFrom(Tail(s), sep, <<>>)
    ELSE SplitFrom(Tail(s), sep, Append(cur, Head(s)))

\* s.split(sep)
Split(s, sep) == SplitFrom(s, sep, <<>>)

\* parts.join(sep)
RECURSIVE Join(_, _)
Join(parts, sep) ==
    IF parts = <<>> THEN <<>>
    ELSE IF Len(parts) = 1 THEN parts[1]
    ELSE parts[1] \o <<sep>> \o Join(Tail(parts), sep)

\* s.startsWith(p)
StartsWith(s, p) == Len(p) <= Len(s) /\ SubSeq(s, 1, Len(p)) = p

\* list.includes(x)
Includes(list, x) == \E i \in 1..Len(list) : list[i] = x

----------------------------------------------------------------------------
\* JavaScript values and completions.

\* a function call that returned v
Ret(v) == [threw |-> FALSE, value |-> v]

\* a function call that threw; the value field is unused
Thrown == [threw |-> TRUE, value |-> <<>>]

\* a value of a mapping module: type is "list" (an array of strings, in
\* items), "string" (one string, items[1]) or "object" (own enumerable
\* string-keyed properties in insertion order, in entries)
ListVal(xs) == [type |-> "list", items |-> xs, entries |-> <<>>]

StrVal(x) == [type |-> "string", items |-> <<x>>, entries |-> <<>>]

ObjVal(es) == [type |-> "object", items |-> <<>>, entries |-> es]

\* a number, or null/undefined when isNum is FALSE
Num(n) == [isNum |-> TRUE, num |-> n]

Null == [isNum |-> FALSE, num |-> 0]

\* a || b on numbers and null
JsOr(a, b) == IF a.isNum /\ a.num # 0 THEN a ELSE b

\* a config field that was never given a value (args[++i] past the end)
UNDEFINED == "undefined"

----------------------------------------------------------------------------
\* src/src/index.js

\* getChangedFiles without `.filter(file => file)`
GetChangedFilesTryNoFilter(g) ==
    IF ~g.branchOk THEN Thrown
    ELSE IF ~g.diffOk THEN Thrown
    ELSE LET output == Trim(g.output) IN
         IF output = <<>> THEN Ret(<<>>)
         ELSE Ret(Split(output, "\n"))

\* the try block of getChangedFiles: either execSync may throw
GetChangedFilesTry(g) ==
    IF ~g.branchOk THEN Thrown
    ELSE IF ~g.diffOk THEN Thrown
    ELSE LET output == Trim(g.output) IN
         IF output = <<>> THEN Ret(<<>>)
         ELSE Ret(SelectSeq(Split(output, "\n"), LAMBDA file : file # <<>>))

\* getChangedFiles(baseBranch, verbose): the catch clause returns []
GetChangedFiles(g) ==
    LET r == GetChangedFilesTry(g) IN
    IF r.threw THEN Ret(<<>>) ELSE r

\* obj[key] || fallback, for an object obj
RECURSIVE PropOr(_, _, _)
PropOr(es, key, fallback) ==
    IF es = <<>> THEN fallback
    ELSE IF Head(es).key = key
         THEN (IF Head(es).val.type = "string" /\ Head(es).val.items[1] = <<>>
               THEN fallback ELSE Head(es).val)
         ELSE PropOr(Tail(es), key, fallback)

\* 'default'
DEFAULT_KEY == <<"d", "e", "f", "a", "u", "l", "t">>

\* the require.cache entry of the mapping module: none, or the exports of
\* the module as they were when it was loaded
NoCache == [cached |-> FALSE, exports |-> ObjVal(<<>>)]

Cached(x) == [cached |-> TRUE, exports |-> x]

\* loadMappings without the `delete require.cache[...]`
DeleteRequireCacheSkipped(cache) == cache

\* delete require.cache[require.resolve(resolvedPath)]
DeleteRequireCache(cache) == NoCache

\* require(resolvedPath): the cached exports when there is an entry, else
\* the file is loaded, which throws if it does not load
Require(fs, cache) ==
    IF cache.cached THEN Ret(cache.exports)
    ELSE IF fs.loads THEN Ret(fs.exports)
    ELSE Thrown

\* require.cache after require(resolvedPath): a load that throws leaves no
\* entry
RequireCacheAfter(fs, cache) ==
    IF cache.cached THEN cache
    ELSE IF fs.loads THEN Cached(fs.exports)
    ELSE NoCache

\* loadMappings(mappingsFile) in a process whose require.cache entry is
\* cache: path.resolve throws on a non-string, a missing file throws
\* 'Mappings file not found'; fs is the state of the file the path resolves to
LoadMappingsCached(mappingsFile, fs, cache) ==
    IF mappingsFile = UNDEFINED THEN Thrown
    ELSE IF ~fs.exists THEN Thrown
    ELSE LET m == Require(fs, DeleteRequireCache(cache)) IN
         IF m.threw THEN Thrown
         ELSE Ret(PropOr(m.value.entries, DEFAULT_KEY, m.value))

\* require.cache after loadMappings(mappingsFile)
CacheAfterLoadMappings(mappingsFile, fs, cache) ==
    IF mappingsFile = UNDEFINED \/ ~fs.exists THEN cache
    ELSE RequireCacheAfter(fs, DeleteRequireCache(cache))

\* loadMappings(mappingsFile) in a process that has not loaded the module
LoadMappings(mappingsFile, fs) == LoadMappingsCached(mappingsFile, fs, NoCache)

\* an array push in place of Set.prototype.add
SetAddPush(set, x) == Append(set, x)

\* Set.prototype.add on a Set kept as the sequence of its insertion order
SetAdd(set, x) == IF Includes(set, x) THEN set ELSE Append(set, x)

\* the for..of loop of getMappedTags for one file: paths.some throws a
\* TypeError when paths is not an array
RECURSIVE ScanEntries(_, _, _)
ScanEntries(file, es, acc) ==
    IF es = <<>> THEN Ret(acc)
    ELSE LET tag == Head(es).key
             paths == Head(es).val
         IN  IF paths.type # "list" THEN Thrown
             ELSE ScanEntries(file, Tail(es),
                     IF \E i \in 1..Len(paths.items) :
                            StartsWith(file, paths.items[i])
                     THEN SetAdd(acc, tag)
                     ELSE acc)

\* changedFiles.forEach(...)
RECURSIVE ScanFiles(_, _, _)
ScanFiles(files, es, acc) ==
    IF files = <<>> THEN Ret(acc)
    ELSE LET r == ScanEntries(Head(files), es, acc) IN
         IF r.threw THEN r ELSE ScanFiles(Tail(files), es, r.value)

\* getMappedTags(changedFiles, mappingsOrFile, verbose): a string argument is
\* a path and is loaded, anything else is used as it is
GetMappedTags(files, mappingsOrFile, fs) ==
    LET m == IF mappingsOrFile.type = "string"
             THEN LoadMappings("path", fs)
             ELSE Ret(mappingsOrFile)
    IN  IF m.threw THEN Thrown
        ELSE ScanFiles(files, m.value.entries, <<>>)

\* the options argument: absent ({}), or {addBaseline: b}
NoOptions == [given |-> FALSE, addBaseline |-> FALSE]

Options(b) == [given |-> TRUE, addBaseline |-> b]

\* const { addBaseline = true } = options
AddBaseline(opts) == IF opts.given THEN opts.addBaseline ELSE TRUE

\* computeGrepPattern without the `allTags.length === 0` fallback
ComputeGrepPatternNoFallback(tagList, opts) ==
    LET allTags == IF AddBaseline(opts) /\ ~Includes(tagList, BASELINE)
                   THEN Append(tagList, BASELINE)
                   ELSE tagList
    IN  <<"(">> \o Join(allTags, "|") \o <<")">>

\* computeGrepPattern testing `tags.length === 0` before the baseline is added
ComputeGrepPatternEarlyFallback(tagList, opts) ==
    LET allTags == IF AddBaseline(opts) /\ ~Includes(tagList, BASELINE)
                   THEN Append(tagList, BASELINE)
                   ELSE tagList
    IN  IF Len(tagList) = 0 THEN BASELINE
        ELSE <<"(">> \o Join(allTags, "|") \o <<")">>

\* computeGrepPattern pushing the baseline tag without the includes test
ComputeGrepPatternAlwaysAppend(tagList, opts) ==
    LET allTags == IF AddBaseline(opts)
                   THEN Append(tagList, BASELINE)
                   ELSE tagList
    IN  IF Len(allTags) = 0 THEN BASELINE
        ELSE <<"(">> \o Join(allTags, "|") \o <<")">>

\* computeGrepPattern putting the baseline tag first
ComputeGrepPatternPrepend(tagList, opts) ==
    LET allTags == IF AddBaseline(opts) /\ ~Includes(tagList, BASELINE)
                   THEN <<BASELINE>> \o tagList
                   ELSE tagList
    IN  IF Len(allTags) = 0 THEN BASELINE
        ELSE <<"(">> \o Join(allTags, "|") \o <<")">>

\* computeGrepPattern(tags, options)
ComputeGrepPattern(tagList, opts) ==
    LET allTags == IF AddBaseline(opts) /\ ~Includes(tagList, BASELINE)
                   THEN Append(tagList, BASELINE)
                   ELSE tagList
    IN  IF Len(allTags) = 0 THEN BASELINE
        ELSE <<"(">> \o Join(allTags, "|") \o <<")">>

\* the caller's tag list after computeGrepPattern(tags, options): the push
\* acts on the copy `[...tags]`
TagsAfterCompute(tagList, opts) == tagList

\* what running the external command can do: complete, fail with a status
\* code (1..MaxStatus), or fail with no status (not spawned, killed by a
\* signal: error.status is null or undefined)
ExecOutcomes ==
    {[ok |-> TRUE, hasStatus |-> FALSE, status |-> 0],
     [ok |-> FALSE, hasStatus |-> FALSE, status |-> 0]}
    \cup {[ok |-> FALSE, hasStatus |-> TRUE, status |-> s] : s \in 1..MaxStatus}

\* error.status of the error execSync throws
ErrorStatus(outcome) == IF outcome.hasStatus THEN Num(outcome.status) ELSE Null

\* the catch clause of runPlaywright returning error.status as it is
RunPlaywrightCatchRaw(outcome) == Ret(ErrorStatus(outcome))

\* the catch clause of runPlaywright
RunPlaywrightCatch(outcome) == Ret(JsOr(ErrorStatus(outcome), Num(1)))

\* runPlaywright(grepPattern, additionalArgs): execSync throws when the
\* command fails
RunPlaywright(outcome) ==
    IF outcome.ok THEN Ret(Num(0)) ELSE RunPlaywrightCatch(outcome)

----------------------------------------------------------------------------
\* src/bin/cli.js

\* DEFAULT_CONFIG
DEFAULT_CONFIG ==
    [mappingsFile |-> "test-mappings.js", baseBranch |-> "main",
     addBaseline |-> TRUE, verbose |-> FALSE]

\* loadConfig(): rc is the state of .mapperrc: "missing", "invalid" (not
\* JSON), "noBaseline" ({"addBaseline": false}) or "sample" (what init writes)
LoadConfig(rc) ==
    IF rc = "noBaseline" THEN [DEFAULT_CONFIG EXCEPT !.addBaseline = FALSE]
    ELSE DEFAULT_CONFIG

\* the tokens for which arg.startsWith('-') holds
Dashed ==
    {"-b", "--base-branch", "-m", "--mappings-file", "-v", "--verbose",
     "--no-baseline", "--help", "-h", "--headed", "--"}

\* args[i], undefined past the end
ArgAt(args, i) == IF i <= Len(args) THEN args[i] ELSE UNDEFINED

\* the for loop of parseArgs, from index i (1-based)
RECURSIVE ParseFrom(_, _, _)
ParseFrom(args, i, parsed) ==
    IF i > Len(args) THEN parsed
    ELSE LET arg == args[i] IN
         IF arg \notin Dashed /\ i = 1
         THEN ParseFrom(args, i + 1, [parsed EXCEPT !.command = arg])
         ELSE IF arg \in {"--base-branch", "-b"}
         THEN ParseFrom(args, i + 2,
                  [parsed EXCEPT !.config.baseBranch = ArgAt(args, i + 1)])
         ELSE IF arg \in {"--mappings-file", "-m"}
         THEN ParseFrom(args, i + 2,
                  [parsed EXCEPT !.config.mappingsFile = ArgAt(args, i + 1)])
         ELSE IF arg \in {"--verbose", "-v"}
         THEN ParseFrom(args, i + 1, [parsed EXCEPT !.config.verbose = TRUE])
         ELSE IF arg = "--no-baseline"
         THEN ParseFrom(args, i + 1, [parsed EXCEPT !.config.addBaseline = FALSE])
         ELSE IF arg \in {"--help", "-h"}
         THEN ParseFrom(args, i + 1, [parsed EXCEPT !.command = "help"])
         ELSE ParseFrom(args, i + 1,
                  [parsed EXCEPT !.playwrightArgs = Append(@, arg)])

\* parseArgs(args)
ParseArgs(args, rc) ==
    ParseFrom(args, 1,
        [command |-> "run", config |-> LoadConfig(rc), playwrightArgs |-> <<>>])

\* the switch of main: the function the command dispatches to
Dispatch(cmd) ==
    IF cmd \in {"help", "init", "list"} THEN cmd ELSE "run"

\* sampleMappings of initCommand
SAMPLE_MAPPINGS ==
    ObjVal(<<
      [key |-> <<"@", "a", "u", "t", "h">>, val |-> ListVal(<<<<"s", "r", "c", "/", "a", "u", "t", "h", "/">>,
                                         <<"s", "r", "c", "/", "m", "i", "d", "d", "l", "e", "w", "a", "r", "e", "/", "a", "u", "t", "h", ".", "j", "s">>>>)],
      [key |-> <<"@", "a", "p", "i">>, val |-> ListVal(<<<<"s", "r", "c", "/", "a", "p", "i", "/">>,
                                        <<"s", "r", "c", "/", "s", "e", "r", "v", "i", "c", "e", "s", "/">>>>)],
      [key |-> <<"@", "u", "i">>, val |-> ListVal(<<<<"s", "r", "c", "/", "c", "o", "m", "p", "o", "n", "e", "n", "t", "s", "/">>,
                                       <<"s", "r", "c", "/", "p", "a", "g", "e", "s", "/">>>>)]>>)

\* `changedFiles === []`, which no array satisfies
NoChangesIdentity(files) == FALSE

\* changedFiles.length === 0
NoChanges(files) == Len(files) = 0

----------------------------------------------------------------------------
\* The inputs of the model.

\* '@a', '@b': two tags of a mapping table
TagA == <<"@", "a">>

TagB == <<"@", "b">>

\* the command line tokens of the model
Tokens == {"run", "list", "init", "help", "--no-baseline", "--headed", "-m"}

\* the states of .mapperrc before the process starts
RcStates == {"missing", "invalid", "noBaseline"}

\* the values of MAPPER_DISABLE: '1', or anything else (unset included)
DisableValues == {"1", "0"}

\* a repository: whether `git rev-parse` and `git diff` succeed, and what
\* `git diff --name-only` prints
GitState(b, d, out) == [branchOk |-> b, diffOk |-> d, output |-> out]

\* the repositories of the command line model
CliGitStates ==
    {GitState(FALSE, TRUE, <<>>), GitState(TRUE, FALSE, <<>>)}
    \cup {GitState(TRUE, TRUE, out) :
            out \in {<<>>, <<"\n">>, <<"a", "\n">>, <<"a", "\n", "b", "\n">>}}

\* the repositories of the getChangedFiles model
AllGitStates ==
    {GitState(b, d, out) :
        b \in BOOLEAN, d \in BOOLEAN, out \in SeqUpTo({"a", " ", "\n"}, MaxOutLen)}

\* a mapping file: whether it exists, whether require() loads it, and what
\* it exports
FileState(e, l, x) == [exists |-> e, loads |-> l, exports |-> x]

\* { '@a': ['a'], '@b': ['b', 'ab'] }
TABLE_AB ==
    ObjVal(<<[key |-> TagA, val |-> ListVal(<< <<"a">> >>)],
             [key |-> TagB, val |-> ListVal(<< <<"b">>, <<"a", "b">> >>)]>>)

\* the mapping files of the command line model: missing, not loadable,
\* a table, a table under `default`, a table none of whose prefixes match,
\* a table with a rule whose value is a string, not a list
CliFileStates ==
    {FileState(FALSE, FALSE, ObjVal(<<>>)),
     FileState(TRUE, FALSE, ObjVal(<<>>)),
     FileState(TRUE, TRUE, TABLE_AB),
     FileState(TRUE, TRUE, ObjVal(<<[key |-> DEFAULT_KEY, val |-> TABLE_AB]>>)),
     FileState(TRUE, TRUE,
         ObjVal(<<[key |-> TagA, val |-> ListVal(<< <<"c">> >>)]>>)),
     FileState(TRUE, TRUE,
         ObjVal(<<[key |-> TagA, val |-> ListVal(<< <<"a">> >>)],
                  [key |-> TagB, val |-> StrVal(<<"b">>)]>>))}

\* the file paths and prefixes of the getMappedTags model
Paths == {<<>>, <<"a">>, <<"a", "b">>, <<"b">>}

\* the mapping tables of the getMappedTags model: the keys are distinct
\* tags, each value a list of prefixes
Tables ==
    {ObjVal(<<>>)}
    \cup {ObjVal(<<[key |-> t, val |-> ListVal(ps)]>>) :
            t \in {TagA, TagB}, ps \in SeqUpTo(Paths, MaxPrefixes)}
    \cup {ObjVal(<<[key |-> t[1], val |-> ListVal(ps)],
                   [key |-> t[2], val |-> ListVal(qs)]>>) :
            t \in {<<TagA, TagB>>, <<TagB, TagA>>},
            ps \in SeqUpTo(Paths, MaxPrefixes),
            qs \in SeqUpTo(Paths, MaxPrefixes)}

\* the tags of the computeGrepPattern model
GrepTags == {TagA, TagB, BASELINE}

\* the values the variables of the process hold before it has set them
Unset ==
    /\ requireCache = NoCache
    /\ command = ""
    /\ config = DEFAULT_CONFIG
    /\ playwrightArgs = <<>>
    /\ calls = <<>>
    /\ status = Null
    /\ exitCode = Null
    /\ trace = <<>>
    /\ err = FALSE
    /\ reported = FALSE

----------------------------------------------------------------------------
\* The command line process: main() of src/bin/cli.js.

Init ==
    /\ pc = "main"
    /\ argv \in SeqUpTo(Tokens, MaxArgs)
    /\ envDisable \in DisableValues
    /\ rcFile \in RcStates
    /\ git \in CliGitStates
    /\ fsFile \in CliFileStates
    /\ changedFiles = <<>>
    /\ mappings = ObjVal(<<>>)
    /\ tags = <<>>
    /\ options = NoOptions
    /\ grepPattern = <<>>
    /\ Unset

\* main: parseArgs and the switch
Main ==
    /\ pc = "main"
    /\ LET parsed == ParseArgs(argv, rcFile) IN
       /\ command' = parsed.command
       /\ config' = parsed.config
       /\ playwrightArgs' = parsed.playwrightArgs
       /\ pc' = Dispatch(parsed.command)
    /\ UNCHANGED <<argv, envDisable, rcFile, git, fsFile, requireCache,
                   changedFiles, mappings, tags, options, grepPattern, calls,
                   status, exitCode, trace, err, reported>>

\* process.exit(code)
Exit(code) ==
    /\ pc' = "exited"
    /\ exitCode' = code

\* case 'help': printHelp(); process.exit(0)
Help ==
    /\ pc = "help"
    /\ Exit(Num(0))
    /\ UNCHANGED <<argv, envDisable, rcFile, git, fsFile, requireCache,
                   command, config, playwrightArgs, changedFiles, mappings,
                   tags, options, grepPattern, calls, status, trace, err,
                   reported>>

\* case 'init': initCommand() writes test-mappings.js and .mapperrc where
\* they do not exist; process.exit(0)
InitCommand ==
    /\ pc = "init"
    /\ fsFile' = IF config.mappingsFile = "test-mappings.js" /\ ~fsFile.exists
                 THEN FileState(TRUE, TRUE, SAMPLE_MAPPINGS)
                 ELSE fsFile
    /\ rcFile' = IF rcFile = "missing" THEN "sample" ELSE rcFile
    /\ Exit(Num(0))
    /\ UNCHANGED <<argv, envDisable, git, requireCache, command, config,
                   playwrightArgs, changedFiles, mappings, tags, options,
                   grepPattern, calls, status, trace, err, reported>>

\* const changedFiles = getChangedFiles(...), and the branch on its length
Detect(none, some) ==
    /\ LET r == GetChangedFiles(git) IN
       /\ trace' = Append(trace, "getChangedFiles")
       /\ IF r.threw
          THEN /\ err' = TRUE
               /\ Exit(Num(1))
               /\ UNCHANGED changedFiles
          ELSE /\ changedFiles' = r.value
               /\ pc' = IF NoChanges(r.value) THEN none ELSE some
               /\ UNCHANGED <<err, exitCode>>
    /\ UNCHANGED <<argv, envDisable, rcFile, git, fsFile, requireCache,
                   command, config, playwrightArgs, mappings, tags, options,
                   grepPattern, calls, status, reported>>

\* try { const mappings = loadMappings(config.mappingsFile)
Load(next, catch) ==
    /\ LET r == LoadMappingsCached(config.mappingsFile, fsFile, requireCache) IN
       /\ trace' = Append(trace, "loadMappings")
       /\ requireCache' =
              CacheAfterLoadMappings(config.mappingsFile, fsFile, requireCache)
       /\ IF r.threw
          THEN /\ err' = TRUE
               /\ pc' = catch
               /\ UNCHANGED mappings
          ELSE /\ mappings' = r.value
               /\ pc' = next
               /\ UNCHANGED err
    /\ UNCHANGED <<argv, envDisable, rcFile, git, fsFile, command, config,
                   playwrightArgs, changedFiles, tags, options, grepPattern,
                   calls, status, exitCode, reported>>

\* const tags = getMappedTags(changedFiles, mappings, ...)
Resolve(next, catch) ==
    /\ LET r == GetMappedTags(changedFiles, mappings, fsFile) IN
       /\ trace' = Append(trace, "getMappedTags")
       /\ IF r.threw
          THEN /\ err' = TRUE
               /\ pc' = catch
               /\ UNCHANGED tags
          ELSE /\ tags' = r.value
               /\ pc' = next
               /\ UNCHANGED err
    /\ UNCHANGED <<argv, envDisable, rcFile, git, fsFile, requireCache,
                   command, config, playwrightArgs, changedFiles, mappings,
                   options, grepPattern, calls, status, exitCode, reported>>

\* const grepPattern = computeGrepPattern(tags, { addBaseline: ... })
Compose(next) ==
    /\ options' = Options(config.addBaseline)
    /\ grepPattern' = ComputeGrepPattern(tags, options')
    /\ trace' = Append(trace, "computeGrepPattern")
    /\ pc' = next
    /\ UNCHANGED <<argv, envDisable, rcFile, git, fsFile, requireCache,
                   command, config, playwrightArgs, changedFiles, mappings,
                   tags, calls, status, exitCode, err, reported>>

\* runPlaywright(pattern, playwrightArgs) at one of the call sites of
\* runCommand; the call inside the try block is covered by its catch clause,
\* an exception anywhere else ends the process with code 1
Invoke(pattern, inTry) ==
    /\ \E outcome \in ExecOutcomes :
         LET r == RunPlaywright(outcome) IN
         /\ calls' = Append(calls,
                        [grepPattern |-> pattern,
                         additionalArgs |-> playwrightArgs,
                         outcome |-> outcome,
                         returned |-> IF r.threw THEN Null ELSE r.value])
         /\ trace' = Append(trace, "runPlaywright")
         /\ IF r.threw
            THEN /\ err' = TRUE
                 /\ IF inTry
                    THEN pc' = "run_catch" /\ UNCHANGED exitCode
                    ELSE Exit(Num(1))
                 /\ UNCHANGED status
            ELSE /\ status' = r.value
                 /\ pc' = "run_return"
                 /\ UNCHANGED <<err, exitCode>>
    /\ UNCHANGED <<argv, envDisable, rcFile, git, fsFile, requireCache,
                   command, config, playwrightArgs, changedFiles, mappings,
                   tags, options, grepPattern, reported>>

\* `process.env.MAPPER_DISABLE === 1`, which no environment string satisfies
DisabledNumber(value) == FALSE

\* process.env.MAPPER_DISABLE === '1'
Disabled(value) == value = "1"

\* runCommand: the check of the disable flag
RunCheckDisable ==
    /\ pc = "run"
    /\ pc' = IF Disabled(envDisable) THEN "run_disabled" ELSE "run_detect"
    /\ UNCHANGED <<argv, envDisable, rcFile, git, fsFile, requireCache,
                   command, config, playwrightArgs, changedFiles, mappings,
                   tags, options, grepPattern, calls, status, exitCode,
                   trace, err, reported>>

\* return runPlaywright('.*', playwrightArgs), MAPPER_DISABLE=1
RunDisabledInvoke ==
    /\ pc = "run_disabled"
    /\ Invoke(MATCH_ALL, FALSE)

\* runCommand: change detection
RunDetect ==
    /\ pc = "run_detect"
    /\ Detect("run_nochange", "run_load")

\* return runPlaywright('@baseline', playwrightArgs), no changed files
RunNoChangeInvoke ==
    /\ pc = "run_nochange"
    /\ Invoke(BASELINE, FALSE)

\* runCommand: the try block
RunLoad ==
    /\ pc = "run_load"
    /\ Load("run_resolve", "run_catch")

RunResolve ==
    /\ pc = "run_resolve"
    /\ Resolve("run_compose", "run_catch")

RunCompose ==
    /\ pc = "run_compose"
    /\ Compose("run_mapped")

\* return runPlaywright(grepPattern, playwrightArgs), inside the try block
RunMappedInvoke ==
    /\ pc = "run_mapped"
    /\ Invoke(grepPattern, TRUE)

\* the catch clause of listCommand in place of that of runCommand
RunCatchExit ==
    /\ pc = "run_catch"
    /\ reported' = TRUE
    /\ err' = FALSE
    /\ pc' = "exited"
    /\ exitCode' = Num(1)
    /\ UNCHANGED <<argv, envDisable, rcFile, git, fsFile, requireCache,
                   command, config, playwrightArgs, changedFiles, mappings,
                   tags, options, grepPattern, calls, status, trace>>

\* runCommand: the catch clause prints the fault and the fallback notice
RunCatch ==
    /\ pc = "run_catch"
    /\ reported' = TRUE
    /\ err' = FALSE
    /\ pc' = "run_fallback"
    /\ UNCHANGED <<argv, envDisable, rcFile, git, fsFile, requireCache,
                   command, config, playwrightArgs, changedFiles, mappings,
                   tags, options, grepPattern, calls, status, exitCode,
                   trace>>

\* return runPlaywright('.*', playwrightArgs), in the catch clause
RunFallbackInvoke ==
    /\ pc = "run_fallback"
    /\ Invoke(MATCH_ALL, FALSE)

\* process.exit(0) after runCommand, as after the other commands
RunExitCodeZero(st) == Num(0)

\* the code main gives to process.exit after runCommand returned st
RunExitCode(st) == st

\* const exitCode = runCommand(...); process.exit(exitCode)
RunReturn ==
    /\ pc = "run_return"
    /\ Exit(RunExitCode(status))
    /\ UNCHANGED <<argv, envDisable, rcFile, git, fsFile, requireCache,
                   command, config, playwrightArgs, changedFiles, mappings,
                   tags, options, grepPattern, calls, status, trace, err,
                   reported>>

\* listCommand: change detection
ListDetect ==
    /\ pc = "list"
    /\ Detect("list_return", "list_load")

\* listCommand: the try block
ListLoad ==
    /\ pc = "list_load"
    /\ Load("list_resolve", "list_catch")

ListResolve ==
    /\ pc = "list_resolve"
    /\ Resolve("list_compose", "list_catch")

ListCompose ==
    /\ pc = "list_compose"
    /\ Compose("list_return")

\* the catch clause of listCommand without process.exit(1)
ListCatchReturn ==
    /\ pc = "list_catch"
    /\ reported' = TRUE
    /\ err' = FALSE
    /\ pc' = "list_return"
    /\ UNCHANGED <<argv, envDisable, rcFile, git, fsFile, requireCache,
                   command, config, playwrightArgs, changedFiles, mappings,
                   tags, options, grepPattern, calls, status, exitCode,
                   trace>>

\* listCommand: the catch clause prints the fault; process.exit(1)
ListCatch ==
    /\ pc = "list_catch"
    /\ reported' = TRUE
    /\ err' = FALSE
    /\ Exit(Num(1))
    /\ UNCHANGED <<argv, envDisable, rcFile, git, fsFile, requireCache,
                   command, config, playwrightArgs, changedFiles, mappings,
                   tags, options, grepPattern, calls, status, trace>>

\* case 'list': listCommand(config) returned; process.exit(0)
ListReturn ==
    /\ pc = "list_return"
    /\ Exit(Num(0))
    /\ UNCHANGED <<argv, envDisable, rcFile, git, fsFile, requireCache,
                   command, config, playwrightArgs, changedFiles, mappings,
                   tags, options, grepPattern, calls, status, trace, err,
                   reported>>

Next ==
    \/ Main
    \/ Help
    \/ InitCommand
    \/ RunCheckDisable
    \/ RunDisabledInvoke
    \/ RunDetect
    \/ RunNoChangeInvoke
    \/ RunLoad
    \/ RunResolve
    \/ RunCompose
    \/ RunMappedInvoke
    \/ RunCatch
    \/ RunFallbackInvoke
    \/ RunReturn
    \/ ListDetect
    \/ ListLoad
    \/ ListResolve
    \/ ListCompose
    \/ ListCatch
    \/ ListReturn

Spec == Init /\ [][Next]_vars

----------------------------------------------------------------------------
\* The library called directly (module.exports of src/src/index.js): the
\* arguments are drawn in the initial state, one action makes the call.

\* the variables of the process a library call leaves alone
Library ==
    /\ argv = <<>>
    /\ envDisable = "0"
    /\ rcFile = "missing"
    /\ Unset

LibraryUnchanged ==
    UNCHANGED <<argv, envDisable, rcFile, git, fsFile, command, config,
                playwrightArgs, options, calls, status, exitCode, trace,
                reported>>

\* getChangedFiles(baseBranch) in any repository
InitChanged ==
    /\ pc = "getChangedFiles"
    /\ git \in AllGitStates
    /\ fsFile = FileState(FALSE, FALSE, ObjVal(<<>>))
    /\ changedFiles = <<>>
    /\ mappings = ObjVal(<<>>)
    /\ tags = <<>>
    /\ options = NoOptions
    /\ grepPattern = <<>>
    /\ Library

CallGetChangedFiles ==
    /\ pc = "getChangedFiles"
    /\ LET r == GetChangedFiles(git) IN
       /\ err' = r.threw
       /\ changedFiles' = r.value
    /\ pc' = "returned"
    /\ UNCHANGED <<requireCache, mappings, tags, grepPattern>>
    /\ LibraryUnchanged

NextChanged == CallGetChangedFiles

SpecChanged == InitChanged /\ [][NextChanged]_vars

\* getMappedTags(changedFiles, mappings) for a list of files and a table
InitTags ==
    /\ pc = "getMappedTags"
    /\ git = GitState(TRUE, TRUE, <<>>)
    /\ fsFile = FileState(FALSE, FALSE, ObjVal(<<>>))
    /\ changedFiles \in SeqUpTo(Paths, MaxFiles)
    /\ mappings \in Tables
    /\ tags = <<>>
    /\ options = NoOptions
    /\ grepPattern = <<>>
    /\ Library

CallGetMappedTags ==
    /\ pc = "getMappedTags"
    /\ LET r == GetMappedTags(changedFiles, mappings, fsFile) IN
       /\ err' = r.threw
       /\ tags' = r.value
    /\ requireCache' = IF mappings.type = "string"
                       THEN CacheAfterLoadMappings("path", fsFile, requireCache)
                       ELSE requireCache
    /\ pc' = "returned"
    /\ UNCHANGED <<changedFiles, mappings, grepPattern>>
    /\ LibraryUnchanged

NextTags == CallGetMappedTags

SpecTags == InitTags /\ [][NextTags]_vars

\* computeGrepPattern(tags, options) for a list of tags
InitGrep ==
    /\ pc = "computeGrepPattern"
    /\ git = GitState(TRUE, TRUE, <<>>)
    /\ fsFile = FileState(FALSE, FALSE, ObjVal(<<>>))
    /\ changedFiles = <<>>
    /\ mappings = ObjVal(<<>>)
    /\ tags \in SeqUpTo(GrepTags, MaxTags)
    /\ options \in {NoOptions, Options(TRUE), Options(FALSE)}
    /\ grepPattern = <<>>
    /\ Library

CallComputeGrepPattern ==
    /\ pc = "computeGrepPattern"
    /\ grepPattern' = ComputeGrepPattern(tags, options)
    /\ tags' = TagsAfterCompute(tags, options)
    /\ pc' = "returned"
    /\ UNCHANGED <<requireCache, changedFiles, mappings, err>>
    /\ LibraryUnchanged

NextGrep == CallComputeGrepPattern

SpecGrep == InitGrep /\ [][NextGrep]_vars

----------------------------------------------------------------------------
\* Properties of getMappedTags (SpecTags).

\* p is a prefix of s, character by character
IsRawPrefix(p, s) ==
    /\ Len(p) <= Len(s)
    /\ \A i \in 1..Len(p) : s[i] = p[i]

\* some changed file starts with one of the prefixes of the rule of tag t
SomeFileMatches(t) ==
    \E f \in 1..Len(changedFiles), e \in 1..Len(mappings.entries) :
        /\ mappings.entries[e].key = t
        /\ \E k \in 1..Len(mappings.entries[e].val.items) :
               IsRawPrefix(mappings.entries[e].val.items[k], changedFiles[f])

\* C1: for every list of changed files and every mapping table, the list
\* getMappedTags returns holds tag T iff some changed file starts with one
\* of T's prefixes, and holds no tag twice.
C1_TagsIffPrefixMatch ==
    pc = "returned" =>
        /\ ~err
        /\ \A t \in {TagA, TagB} : Includes(tags, t) <=> SomeFileMatches(t)
        /\ \A i \in 1..Len(tags) : tags[i] \in {TagA, TagB}
        /\ \A i, j \in 1..Len(tags) : i # j => tags[i] # tags[j]

\* two different files match two different prefixes of one rule, whose tag
\* is returned, while the other rule matches nothing
C1_Witness ==
    /\ pc = "returned"
    /\ Len(changedFiles) = 2
    /\ changedFiles[1] # changedFiles[2]
    /\ Len(mappings.entries) = 2
    /\ \E e \in 1..2 :
         /\ Len(mappings.entries[e].val.items) = 2
         /\ IsRawPrefix(mappings.entries[e].val.items[1], changedFiles[1])
         /\ IsRawPrefix(mappings.entries[e].val.items[2], changedFiles[2])
         /\ mappings.entries[e].val.items[1] # mappings.entries[e].val.items[2]
         /\ tags = <<mappings.entries[e].key>>
    /\ \E t \in {TagA, TagB} : ~SomeFileMatches(t)

----------------------------------------------------------------------------
\* Properties of computeGrepPattern (SpecGrep). The tags are sigil-prefixed,
\* non-empty identifiers (GrepTags).

\* the pattern holds an alternative with no character: "()", "(|", "||", "|)"
EmptyAlternative(p) ==
    \E i \in 1..(Len(p) - 1) : p[i] \in {"(", "|"} /\ p[i + 1] \in {"|", ")"}

\* C2: for every tag list and both values of addBaseline the pattern is
\* never the empty string and never holds an empty alternation; with no
\* tags and addBaseline = false it is '@baseline'.
C2_FilterNeverEmpty ==
    pc = "returned" =>
        /\ grepPattern # <<>>
        /\ ~EmptyAlternative(grepPattern)
        /\ (tags = <<>> /\ options = Options(FALSE) => grepPattern = BASELINE)

\* no tags and addBaseline = false: '@baseline' was returned
C2_Witness ==
    /\ pc = "returned"
    /\ tags = <<>>
    /\ options = Options(FALSE)
    /\ grepPattern = BASELINE

\* C3 as stated: with an empty tag list and addBaseline = true (given or by
\* default) computeGrepPattern returns exactly '@baseline', unwrapped.
C3_BareBaseline ==
    (pc = "returned" /\ tags = <<>> /\ AddBaseline(options))
        => grepPattern = BASELINE

\* C3 amended: with an empty tag list and addBaseline = true (given or by
\* default) computeGrepPattern returns '(@baseline)', the parenthesised
\* alternation whose only alternative is the baseline tag.
C3_WrappedBaseline ==
    (pc = "returned" /\ tags = <<>> /\ AddBaseline(options))
        => grepPattern = <<"(">> \o BASELINE \o <<")">>

\* no tags and no options: '(@baseline)' was returned
C3_Witness ==
    /\ pc = "returned"
    /\ tags = <<>>
    /\ options = NoOptions
    /\ grepPattern = <<"(", "@", "b", "a", "s", "e", "l", "i", "n", "e", ")">>

----------------------------------------------------------------------------
\* Properties of getChangedFiles (SpecChanged).

\* C10: getChangedFiles never throws; it returns [] when either git command
\* fails and when the diff prints nothing or only whitespace; no list it
\* returns holds an empty string.
C10_ChangedFilesFailOpen ==
    pc = "returned" =>
        /\ ~err
        /\ (~git.branchOk \/ ~git.diffOk => changedFiles = <<>>)
        /\ ((\A i \in 1..Len(git.output) : git.output[i] \in Whitespace)
               => changedFiles = <<>>)
        /\ \A i \in 1..Len(changedFiles) : changedFiles[i] # <<>>

\* the diff printed two names with an empty line between them: two files
C10_Witness ==
    /\ pc = "returned"
    /\ git = GitState(TRUE, TRUE, <<"a", "\n", "\n", "a">>)
    /\ changedFiles = << <<"a">>, <<"a">> >>

----------------------------------------------------------------------------
\* Properties of the command line process (Spec).

\* main has dispatched to runCommand
InRun == pc # "main" /\ Dispatch(command) = "run"

\* main has dispatched to listCommand
InList == pc # "main" /\ Dispatch(command) = "list"

\* runCommand has returned from its call of runPlaywright
RunnerReturned == pc \in {"run_return", "exited"}

\* the only invocation of the runner so far has this pattern and the
\* passthrough arguments
InvokedOnceWith(pattern) ==
    /\ Len(calls) = 1
    /\ calls[1].grepPattern = pattern
    /\ calls[1].additionalArgs = playwrightArgs

LoaderFault ==
    \/ config.mappingsFile = UNDEFINED
    \/ ~fsFile.exists
    \/ ~fsFile.loads

\* the tag resolver faults: the table the file exports directly has a rule
\* whose value is not a list
ResolverFault ==
    /\ ~LoaderFault
    /\ \A i \in 1..Len(fsFile.exports.entries) :
           fsFile.exports.entries[i].key # DEFAULT_KEY
    /\ \E i \in 1..Len(fsFile.exports.entries) :
           fsFile.exports.entries[i].val.type # "list"

\* C5: in the run command with a non-empty changed-file list, a fault of the
\* mapping loader or of the tag resolver is caught in runCommand: it is
\* reported, the runner is invoked with '.*', and the process does not end
\* before that.
C5_FaultFallsBackToAll ==
    (/\ InRun
     /\ ~(envDisable = "1")
     /\ changedFiles # <<>>
     /\ (LoaderFault \/ ResolverFault))
    => /\ (pc = "exited" => /\ reported
                            /\ ~err
                            /\ calls # <<>>
                            /\ calls[Len(calls)].grepPattern = MATCH_ALL
                            /\ calls[Len(calls)].additionalArgs = playwrightArgs)
       /\ (pc = "run_catch" => calls = <<>>)
       /\ (pc # "exited" => ENABLED Next)

\* a rule whose value is a string: the resolver threw, the fault was
\* reported and the runner was invoked with '.*'
C5_Witness ==
    /\ pc = "exited"
    /\ InRun
    /\ envDisable = "0"
    /\ changedFiles # <<>>
    /\ ResolverFault
    /\ trace = <<"getChangedFiles", "loadMappings", "getMappedTags",
                 "runPlaywright">>
    /\ reported
    /\ InvokedOnceWith(MATCH_ALL)

\* C6 as stated: in the list command, given a mappings file that does not
\* exist, the fault is reported and the exit code is not 0; and the list
\* command never invokes the runner.
C6_ListMissingFileFails ==
    /\ (InList /\ pc = "exited" /\ ~fsFile.exists)
           => (reported /\ exitCode # Num(0))
    /\ (InList => calls = <<>>)

\* C6 amended: in the list command, given a mappings file that does not
\* exist, the fault is reported and the exit code is 1 when change detection
\* yields at least one file; when it yields none the mapping file is not
\* consulted and the exit code is 0; the list command never invokes the
\* runner.
C6_ListMissingFileFailsIfChanges ==
    /\ (InList /\ pc = "exited" /\ ~fsFile.exists /\ changedFiles # <<>>)
           => (reported /\ exitCode = Num(1))
    /\ (InList /\ pc = "exited" /\ changedFiles = <<>>)
           => (~reported /\ exitCode = Num(0)
               /\ ~Includes(trace, "loadMappings"))
    /\ (InList => calls = <<>> /\ ~Includes(trace, "runPlaywright"))

\* list, a changed file, no mapping file: reported, exit code 1, no runner
C6_Witness ==
    /\ pc = "exited"
    /\ InList
    /\ ~fsFile.exists
    /\ changedFiles # <<>>
    /\ trace = <<"getChangedFiles", "loadMappings">>
    /\ reported
    /\ exitCode = Num(1)
    /\ calls = <<>>

\* C7: in the run command with MAPPER_DISABLE = '1' the runner is invoked
\* with '.*' and the passthrough arguments, and no change detection, mapping
\* load or tag resolution comes before it, whatever the configuration, the
\* repository and the mapping file.
C7_DisableBypasses ==
    (InRun /\ envDisable = "1")
    => /\ pc \in {"run", "run_disabled", "run_return", "exited"}
       /\ ~Includes(trace, "getChangedFiles")
       /\ ~Includes(trace, "loadMappings")
       /\ ~Includes(trace, "getMappedTags")
       /\ ~Includes(trace, "computeGrepPattern")
       /\ (RunnerReturned => /\ InvokedOnceWith(MATCH_ALL)
                             /\ trace = <<"runPlaywright">>)

\* MAPPER_DISABLE=1, `run --headed`, changes in the repository and a
\* mapping file that loads: one invocation, with '.*' and `--headed`
C7_Witness ==
    /\ pc = "exited"
    /\ envDisable = "1"
    /\ argv = <<"run", "--headed">>
    /\ git = GitState(TRUE, TRUE, <<"a", "\n">>)
    /\ fsFile = FileState(TRUE, TRUE, TABLE_AB)
    /\ Len(calls) = 1
    /\ calls[1].grepPattern = MATCH_ALL
    /\ calls[1].additionalArgs = <<"--headed">>

C9_ExitCodeMirrorsRunner ==
    InRun =>
        /\ Len(calls) <= 1
        /\ (pc = "exited" => /\ Len(calls) = 1
                             /\ calls[1].returned.isNum
                             /\ exitCode = calls[1].returned)

\* the fallback path: the runner failed with the largest status code and
\* the process exited with it
C9_Witness ==
    /\ pc = "exited"
    /\ InRun
    /\ reported
    /\ Len(calls) = 1
    /\ calls[1].grepPattern = MATCH_ALL
    /\ calls[1].outcome.hasStatus
    /\ calls[1].outcome.status = MaxStatus
    /\ exitCode = Num(MaxStatus)

----------------------------------------------------------------------------
\* loadMappings called again and again in one process while the mapping
\* file is edited between the calls (SpecReload).

InitReload ==
    /\ pc = "loadMappings"
    /\ git = GitState(TRUE, TRUE, <<>>)
    /\ fsFile \in CliFileStates
    /\ changedFiles = <<>>
    /\ mappings = ObjVal(<<>>)
    /\ tags = <<>>
    /\ options = NoOptions
    /\ grepPattern = <<>>
    /\ Library

\* the user rewrites, creates or removes the mapping file
EditMappingsFile ==
    /\ Len(trace) < MaxSteps
    /\ \E f \in CliFileStates \ {fsFile} : fsFile' = f
    /\ trace' = Append(trace, "edit")
    /\ pc' = "loadMappings"
    /\ UNCHANGED <<argv, envDisable, rcFile, git, requireCache, command,
                   config, playwrightArgs, changedFiles, mappings, tags,
                   options, grepPattern, calls, status, exitCode, err,
                   reported>>

\* loadMappings(mappingsFile); mappings keeps the last table returned
CallLoadMappings ==
    /\ Len(trace) < MaxSteps
    /\ LET r == LoadMappingsCached("path", fsFile, requireCache) IN
       /\ err' = r.threw
       /\ mappings' = IF r.threw THEN mappings ELSE r.value
    /\ requireCache' = CacheAfterLoadMappings("path", fsFile, requireCache)
    /\ trace' = Append(trace, "loadMappings")
    /\ pc' = "returned"
    /\ UNCHANGED <<argv, envDisable, rcFile, git, fsFile, command, config,
                   playwrightArgs, changedFiles, tags, options, grepPattern,
                   calls, status, exitCode, reported>>

NextReload ==
    \/ EditMappingsFile
    \/ CallLoadMappings

SpecReload == InitReload /\ [][NextReload]_vars

\* the table a mapping file holds now: what it exports under `default` if it
\* exports that, else what it exports
TableInFile ==
    LET es == fsFile.exports.entries IN
    IF \E i \in 1..Len(es) : es[i].key = DEFAULT_KEY
    THEN es[CHOOSE i \in 1..Len(es) : es[i].key = DEFAULT_KEY].val
    ELSE fsFile.exports

\* C11: whatever edits of the mapping file come between the loadMappings
\* calls of one process, each call returns the table the file holds at the
\* time of the call (and throws iff the file is missing or does not load
\* then): no call returns a table cached by an earlier call.
C11_ReloadSeesEdits ==
    pc = "returned" =>
        /\ err <=> (~fsFile.exists \/ ~fsFile.loads)
        /\ (~err => mappings = TableInFile)
        /\ requireCache = IF err THEN requireCache ELSE Cached(fsFile.exports)
        /\ (requireCache.cached /\ fsFile.exists /\ fsFile.loads
               => requireCache.exports = fsFile.exports)

\* a load, an edit, a second load: the second call returned the table the
\* edited file holds, which the module cache now holds too
C11_Witness ==
    /\ pc = "returned"
    /\ trace = <<"loadMappings", "edit", "loadMappings">>
    /\ ~err
    /\ fsFile = FileState(TRUE, TRUE, TABLE_AB)
    /\ mappings = TABLE_AB
    /\ requireCache = Cached(TABLE_AB)

----------------------------------------------------------------------------
\* getMappedTags given a table T plain or under `default`, in memory or as
\* the path of a file that exports it (SpecDefault).

\* { '@a': ['a'] }
TABLE_A == ObjVal(<<[key |-> TagA, val |-> ListVal(<< <<"a">> >>)]>>)

\* { default: table }
Wrapped(table) == ObjVal(<<[key |-> DEFAULT_KEY, val |-> table]>>)

\* './m', the path of a mapping file
MAPPINGS_PATH == <<".", "/", "m">>

InitDefault ==
    /\ pc = "getMappedTags"
    /\ git = GitState(TRUE, TRUE, <<>>)
    /\ changedFiles \in SeqUpTo(Paths, MaxFiles)
    /\ \E table \in {TABLE_A, TABLE_AB}, wrap \in BOOLEAN, viaFile \in BOOLEAN :
         LET given == IF wrap THEN Wrapped(table) ELSE table IN
         IF viaFile
         THEN /\ mappings = StrVal(MAPPINGS_PATH)
              /\ fsFile = FileState(TRUE, TRUE, given)
         ELSE /\ mappings = given
              /\ fsFile = FileState(FALSE, FALSE, ObjVal(<<>>))
    /\ tags = <<>>
    /\ options = NoOptions
    /\ grepPattern = <<>>
    /\ Library

NextDefault == CallGetMappedTags

SpecDefault == InitDefault /\ [][NextDefault]_vars

\* the mapping as supplied: the in-memory value, or what the file exports
Supplied == IF mappings.type = "string" THEN fsFile.exports ELSE mappings

\* the supplied mapping with one level of `default` taken off
SuppliedTable ==
    IF /\ Len(Supplied.entries) = 1
       /\ Supplied.entries[1].key = DEFAULT_KEY
    THEN Supplied.entries[1].val
    ELSE Supplied

\* some changed file starts with one of the prefixes table gives tag t
SomeFileMatchesIn(table, t) ==
    \E f \in 1..Len(changedFiles), e \in 1..Len(table.entries) :
        /\ table.entries[e].key = t
        /\ \E k \in 1..Len(table.entries[e].val.items) :
               IsRawPrefix(table.entries[e].val.items[k], changedFiles[f])

\* C12: a mapping supplied in memory is used with one level of `default`
\* taken off if present: {default: T} resolves the tags T resolves, as a
\* file exporting {default: T} does.
C12_DefaultUnwrappedInMemory ==
    pc = "returned" =>
        /\ ~err
        /\ \A t \in {TagA, TagB} :
               Includes(tags, t) <=> SomeFileMatchesIn(SuppliedTable, t)

\* C12, the part the code keeps: a plain in-memory table and every file,
\* plain or wrapped, resolve the tags of the table
C12_FileOrPlainResolves ==
    (pc = "returned" /\ (mappings.type = "string" \/ Supplied = SuppliedTable))
    => /\ ~err
       /\ \A t \in {TagA, TagB} :
              Includes(tags, t) <=> SomeFileMatchesIn(SuppliedTable, t)

----------------------------------------------------------------------------
\* computeGrepPattern applied again to the tags of its own result (SpecGrep).

\* p is a parenthesised group '(...)'
IsGroup(p) == Len(p) >= 2 /\ p[1] = "(" /\ p[Len(p)] = ")"

\* the tags that make up the expression p: the alternatives of a group, or
\* the one tag of an unwrapped expression
TagsOf(p) ==
    IF IsGroup(p) THEN Split(SubSeq(p, 2, Len(p) - 1), "|") ELSE <<p>>

\* list without the occurrences of x
RECURSIVE Without(_, _)
Without(list, x) ==
    IF list = <<>> THEN <<>>
    ELSE IF Head(list) = x THEN Without(Tail(list), x)
    ELSE <<Head(list)>> \o Without(Tail(list), x)

\* p and q are the same expression, or groups whose alternatives differ
\* only in the presence of the baseline tag
SameModuloBaseline(p, q) ==
    \/ p = q
    \/ /\ IsGroup(p)
       /\ IsGroup(q)
       /\ Without(TagsOf(p), BASELINE) = Without(TagsOf(q), BASELINE)

\* the result composed again from its own tags, with the same options
Recomposed == ComputeGrepPattern(TagsOf(grepPattern), options)

\* C13 as stated: composing the tags of the composed expression again with
\* the same option yields the same expression, differing at most in whether
\* the baseline tag is present.
C13_RecomposeSameExpression ==
    pc = "returned" => SameModuloBaseline(Recomposed, grepPattern)

\* C13 amended: composing again yields an expression with the same tags in
\* the same order, and the same string unless the tag list was empty with
\* addBaseline false: then the unwrapped '@baseline' recomposes to the
\* group '(@baseline)'.
C13_RecomposeSameTags ==
    pc = "returned" =>
        /\ TagsOf(Recomposed) = TagsOf(grepPattern)
        /\ IF tags = <<>> /\ ~AddBaseline(options)
           THEN grepPattern = BASELINE
                /\ Recomposed = <<"(">> \o BASELINE \o <<")">>
           ELSE Recomposed = grepPattern

\* a composed group of two tags, one of them the baseline tag, composed
\* again with addBaseline true
C13_Witness ==
    /\ pc = "returned"
    /\ tags = <<BASELINE, TagA>>
    /\ AddBaseline(options)
    /\ TagsOf(grepPattern) = <<BASELINE, TagA>>
    /\ Recomposed = grepPattern

----------------------------------------------------------------------------
\* Safe by default: what the run command does when something goes wrong
\* (Spec).

\* change detection ran and one of its git commands failed
DetectionFault ==
    /\ Includes(trace, "getChangedFiles")
    /\ (~git.branchOk \/ ~git.diffOk)

\* the .mapperrc.json file exists and does not parse
ConfigFault == rcFile = "invalid"

\* the mapping file was asked for and is missing or malformed
MappingFault ==
    /\ Includes(trace, "loadMappings")
    /\ (LoaderFault \/ ResolverFault)

\* C14: safe by default: whenever something goes wrong during a run (change
\* detection fails, the configuration does not parse, the mapping file is
\* missing or malformed), the runner is invoked with the match-all filter
\* '.*' and not with a narrower one.
C14_AnyFaultRunsAllTests ==
    (/\ InRun
     /\ RunnerReturned
     /\ (DetectionFault \/ ConfigFault \/ MappingFault))
    => /\ calls # <<>>
       /\ \A i \in 1..Len(calls) : calls[i].grepPattern = MATCH_ALL

\* C14 for change detection alone
C14_DetectionFaultRunsAllTests ==
    (InRun /\ RunnerReturned /\ DetectionFault)
    => \A i \in 1..Len(calls) : calls[i].grepPattern = MATCH_ALL

\* C14 for the configuration file alone
C14_ConfigFaultRunsAllTests ==
    (InRun /\ RunnerReturned /\ ConfigFault)
    => \A i \in 1..Len(calls) : calls[i].grepPattern = MATCH_ALL

\* C14 for the mapping file alone: this part the code keeps
C14_MappingFaultRunsAllTests ==
    (InRun /\ RunnerReturned /\ MappingFault)
    => /\ calls # <<>>
       /\ \A i \in 1..Len(calls) : calls[i].grepPattern = MATCH_ALL

----------------------------------------------------------------------------
\* The alternation computeGrepPattern returns (SpecGrep).

\* '(@b|@a|@baseline)'
GROUP_B_A_BASELINE ==
    <<"(", "@", "b", "|", "@", "a", "|">> \o BASELINE \o <<")">>

\* C15: when the resulting tag list is not empty, computeGrepPattern returns
\* the parenthesised '|'-alternation of the input tags in input order; with
\* addBaseline true and '@baseline' not among them it is appended last, when
\* already among them nothing is added and the order is kept, with
\* addBaseline false nothing is added; the input list is left as it was.
C15_AlternationOfInputTags ==
    [][(pc = "computeGrepPattern" /\ pc' = "returned") =>
        /\ tags' = tags
        /\ ~(tags = <<>> /\ ~AddBaseline(options)) =>
             /\ IsGroup(grepPattern')
             /\ SubSeq(TagsOf(grepPattern'), 1, Len(tags)) = tags
             /\ (AddBaseline(options) /\ ~Includes(tags, BASELINE))
                => TagsOf(grepPattern') = Append(tags, BASELINE)
             /\ (AddBaseline(options) /\ Includes(tags, BASELINE))
                => TagsOf(grepPattern') = tags
             /\ ~AddBaseline(options)
                => TagsOf(grepPattern') = tags
      ]_vars

\* two tags without the baseline tag, addBaseline true: the baseline tag is
\* the last of three alternatives
C15_Witness ==
    /\ pc = "returned"
    /\ tags = <<TagB, TagA>>
    /\ AddBaseline(options)
    /\ grepPattern = GROUP_B_A_BASELINE

====
